---- MODULE Spec2Model ----
(***************************************************************************)
(* cs2-dumper: the process session (attach, module snapshots, remote       *)
(* reads), the signature scanner (pattern_to_bytes, find_pattern), the    *)
(* export resolver (get_module_export_by_name) and the driver (main,      *)
(* fetch_offsets), as state machines.                                     *)
(*                                                                         *)
(* Strings that the code inspects character by character (signatures) are *)
(* sequences of one-character strings; strings the code only compares     *)
(* (process, module and export names) are TLA+ strings.                   *)
(***************************************************************************)
EXTENDS Integers, Sequences, FiniteSets, TLC

\* ------------------------------------------------------------------ bounds
\* longest signature string drawn for the scanner harness
MaxPatLen == 3
\* largest SizeOfImage drawn for the scanner harness
MaxImage == 5
\* how many offsets past the end of the image copy a runaway scan is followed
ScanOverrun == 1
\* most type scopes the schema system reports to the driver
MaxScopes == 2
\* width of an address word in the model (std::uint64_t / std::uintptr_t in
\* the code); every address drawn is far below 2^AddrBits, so the only
\* wrap-arounds are the ones the code's own arithmetic produces
AddrBits == 16

AddrMod == 2 ^ AddrBits

\* ---------------------------------------------------------------- optional
nullopt == [has_value |-> FALSE, value |-> 0]

Some(v) == [has_value |-> TRUE, value |-> v]

Min(a, b) == IF a < b THEN a ELSE b

Max(a, b) == IF a < b THEN b ELSE a

\* --------------------------------------------------------- pattern compiler
HexDigits ==
  {"0","1","2","3","4","5","6","7","8","9",
   "A","B","C","D","E","F","a","b","c","d","e","f"}

HexVal(c) ==
  CASE c = "0" -> 0 [] c = "1" -> 1 [] c = "2" -> 2 [] c = "3" -> 3
    [] c = "4" -> 4 [] c = "5" -> 5 [] c = "6" -> 6 [] c = "7" -> 7
    [] c = "8" -> 8 [] c = "9" -> 9
    [] c \in {"A", "a"} -> 10 [] c \in {"B", "b"} -> 11
    [] c \in {"C", "c"} -> 12 [] c \in {"D", "d"} -> 13
    [] c \in {"E", "e"} -> 14 [] c \in {"F", "f"} -> 15

\* std::from_chars(first, first + 2, value, 16) for a std::int32_t: an
\* optional minus sign, then the longest run of hex digits in the two
\* characters c1 c2.  ok is ec == std::errc(); two hex digits never overflow.
from_chars(c1, c2) ==
  IF c1 = "-"
    THEN IF c2 \in HexDigits
           THEN [ok |-> TRUE, value |-> 0 - HexVal(c2)]
           ELSE [ok |-> FALSE, value |-> 0]
    ELSE IF c1 \in HexDigits
           THEN IF c2 \in HexDigits
                  THEN [ok |-> TRUE, value |-> 16 * HexVal(c1) + HexVal(c2)]
                  ELSE [ok |-> TRUE, value |-> HexVal(c1)]
           ELSE [ok |-> FALSE, value |-> 0]

\* the loop of pattern_to_bytes from index k (0-based) with bytes collected
RECURSIVE pattern_loop(_, _, _)
pattern_loop(pattern, k, bytes) ==
  IF ~(k < Len(pattern)) THEN bytes
  ELSE
    LET c == pattern[k + 1] IN
    IF c = "?" THEN pattern_loop(pattern, k + 1, Append(bytes, -1))
    ELSE IF c = " " THEN pattern_loop(pattern, k + 1, bytes)
    ELSE IF k + 1 < Len(pattern)
      THEN LET r == from_chars(pattern[k + 1], pattern[k + 2]) IN
           IF r.ok
             THEN pattern_loop(pattern, k + 2, Append(bytes, r.value))
             ELSE pattern_loop(pattern, k + 1, bytes)
      ELSE pattern_loop(pattern, k + 1, bytes)

pattern_to_bytes(pattern) == pattern_loop(pattern, 0, <<>>)

\* ---------------------------------------------------------------- variables
VARIABLES
  proc_snapshot,   \* what CreateToolhelp32Snapshot(TH32CS_SNAPPROCESS) yields
  open_ok,         \* whether OpenProcess yields a non-null handle
  mod_snapshots,   \* process id -> what the module snapshot of it yields
  memory,          \* module base -> the image mapped there in the target
  schema_found,    \* whether the target's schema system root can be located
  process_id,      \* process::process_id
  process_handle,  \* process::process_handle
  pc,              \* where the running routine stands
  caller,          \* who called find_pattern
  fp_module,       \* find_pattern: module_name
  fp_pattern,      \* find_pattern: pattern
  module_base,     \* find_pattern: module_base
  module_size,     \* find_pattern: module_size
  pattern_bytes,   \* find_pattern: pattern_bytes
  i,               \* find_pattern: the scan offset i
  fp_result,       \* find_pattern: the value returned
  max_read,        \* largest index of module_data read so far, -1 if none
  attach_result,   \* what attach returned, "none" before it has returned
  exit_code,       \* main's return value, -1 while it runs
  ops,             \* module snapshots, target reads and scans performed
  scopes_left,     \* type scopes main has still to generate files for
  client_base,     \* fetch_offsets: client_base
  sig_result,      \* global -> what find_pattern returned for its signature
  reported,        \* global -> the offset fetch_offsets logged, -1 if none
  ex_args,         \* get_module_export_by_name: module_base, function_name
  ex_result        \* get_module_export_by_name: the value returned

env == <<proc_snapshot, open_ok, mod_snapshots, memory, schema_found>>

session == <<process_id, process_handle>>

fp == <<caller, fp_module, fp_pattern, module_base, module_size,
        pattern_bytes, i, fp_result, max_read>>

driver == <<attach_result, exit_code, scopes_left, client_base, sig_result,
            reported>>

export == <<ex_args, ex_result>>

vars == <<env, session, pc, fp, driver, ops, export>>

\* ------------------------------------------------------------ Windows view
NullHandle == <<"nullptr", 0>>

IMAGE_DOS_SIGNATURE == 23117

IMAGE_NT_SIGNATURE == 17744

InvalidSnapshot == [valid |-> FALSE, entries |-> <<>>]

\* the entries a loop `for (X32First(s, &e); X32Next(s, &e);)` hands to its
\* body: X32First fills the first entry, the condition X32Next overwrites it
\* with the second before the body has run once
snapshot_loop_entries(entries) ==
  IF entries = <<>> THEN <<>> ELSE Tail(entries)

\* CreateToolhelp32Snapshot(TH32CS_SNAPMODULE | TH32CS_SNAPMODULE32, pid)
module_snapshot(pid) ==
  IF pid \in DOMAIN mod_snapshots THEN mod_snapshots[pid] ELSE InvalidSnapshot

ToLower(s) ==
  CASE s \in {"cs2.exe", "CS2.EXE", "Cs2.exe"} -> "cs2.exe"
    [] s \in {"client.dll", "CLIENT.DLL", "Client.dll"} -> "client.dll"
    [] OTHER -> s

equals_ignore_case(a, b) == ToLower(a) = ToLower(b)

\* ReadProcessMemory(process_handle, address, buffer, size) for a read that
\* starts at a module base: the headers (0x1000 bytes) or the whole image
read_memory(address, whole_image) ==
  /\ process_handle # NullHandle
  /\ address \in DOMAIN memory
  /\ IF whole_image THEN memory[address].image_readable
                    ELSE memory[address].headers_readable

\* ------------------------------------------------------------- the session
get_process_id_by_name(process_name) ==
  IF ~proc_snapshot.valid THEN nullopt
  ELSE
    LET es == snapshot_loop_entries(proc_snapshot.entries)
        hits == {k \in 1..Len(es) : es[k].szExeFile = process_name}
    IN IF hits = {} THEN nullopt
       ELSE Some(es[CHOOSE k \in hits : \A h \in hits : k <= h].th32ProcessID)

OpenProcess(pid) == IF open_ok THEN <<"handle", pid>> ELSE NullHandle

get_module_base_by_name(module_name) ==
  LET snapshot == module_snapshot(process_id) IN
  IF ~snapshot.valid THEN nullopt
  ELSE
    LET es == snapshot_loop_entries(snapshot.entries)
        hits == {k \in 1..Len(es) : equals_ignore_case(es[k].szModule, module_name)}
    IN IF hits = {} THEN nullopt
       ELSE Some(es[CHOOSE k \in hits : \A h \in hits : k <= h].modBaseAddr)

loaded_modules ==
  LET snapshot == module_snapshot(process_id) IN
  IF ~snapshot.valid THEN nullopt
  ELSE LET es == snapshot_loop_entries(snapshot.entries)
       IN Some([k \in 1..Len(es) |-> es[k].szModule])

\* ------------------------------------------------------------ find_pattern
BumpOps(snapshots, reads, scans) ==
  [snapshots |-> ops.snapshots + snapshots,
   reads |-> ops.reads + reads,
   scans |-> ops.scans + scans]

\* find_pattern up to the scan loop: nothing is scanned unless the module is
\* found, both reads succeed and both signatures are right
FindPatternEnter ==
  /\ pc = "find_pattern"
  /\ LET mb == get_module_base_by_name(fp_module)
         fail(reads) ==
           /\ fp_result' = nullopt
           /\ pc' = "fp_return"
           /\ ops' = BumpOps(1, reads, 0)
           /\ UNCHANGED <<module_base, module_size, pattern_bytes, i>>
     IN IF ~mb.has_value THEN fail(0)
        ELSE IF ~read_memory(mb.value, FALSE) THEN fail(1)
        ELSE IF memory[mb.value].e_magic # IMAGE_DOS_SIGNATURE THEN fail(1)
        ELSE IF memory[mb.value].Signature # IMAGE_NT_SIGNATURE THEN fail(1)
        ELSE IF ~read_memory(mb.value, TRUE) THEN fail(2)
        ELSE /\ module_base' = mb.value
             /\ module_size' = memory[mb.value].SizeOfImage
             /\ pattern_bytes' = pattern_to_bytes(fp_pattern)
             /\ i' = 0
             /\ pc' = "fp_scan"
             /\ ops' = BumpOps(1, 2, 1)
             /\ UNCHANGED fp_result
  /\ UNCHANGED <<env, session, driver, export, caller, fp_module, fp_pattern,
                 max_read>>

\* the bound written without the subtraction: `i < module_size`
loop_condition_whole_image(k, size_of_image, size) == k < size_of_image

\* `i < module_size - pattern.size()`: i is unsigned int, module_size is
\* std::uint32_t and pattern.size() is std::size_t, so the difference is
\* taken modulo 2^64.  When size <= module_size it is module_size - size;
\* otherwise it is 2^64 - (size - module_size), which exceeds every unsigned
\* int because size - module_size < 2^32.
loop_condition(k, size_of_image, size) ==
  IF size <= size_of_image THEN k < size_of_image - size ELSE TRUE

module_data == memory[module_base].data

\* the inner loop over j at scan offset k: "found" when every slot passed,
\* "differs" when slot j made found false, "outside" when module_data[k + j]
\* is past the end of the image copy
RECURSIVE inner_loop(_, _)
inner_loop(k, j) ==
  IF ~(j < Len(pattern_bytes)) THEN [kind |-> "found", j |-> j]
  ELSE IF ~(k + j < module_size) THEN [kind |-> "outside", j |-> j]
  ELSE IF module_data[k + j + 1] # pattern_bytes[j + 1] /\ pattern_bytes[j + 1] # -1
    THEN [kind |-> "differs", j |-> j]
    ELSE inner_loop(k, j + 1)

ScanLoopExit ==
  /\ pc = "fp_scan"
  /\ ~loop_condition(i, module_size, Len(fp_pattern))
  /\ fp_result' = nullopt
  /\ pc' = "fp_return"
  /\ UNCHANGED <<env, session, driver, export, ops, caller, fp_module,
                 fp_pattern, module_base, module_size, pattern_bytes, i,
                 max_read>>

ScanDiffers ==
  /\ pc = "fp_scan"
  /\ loop_condition(i, module_size, Len(fp_pattern))
  /\ LET r == inner_loop(i, 0) IN
       /\ r.kind = "differs"
       /\ max_read' = Max(max_read, i + r.j)
  /\ i' = i + 1
  /\ UNCHANGED <<env, session, driver, export, ops, pc, caller, fp_module,
                 fp_pattern, module_base, module_size, pattern_bytes,
                 fp_result>>

ScanFound ==
  /\ pc = "fp_scan"
  /\ loop_condition(i, module_size, Len(fp_pattern))
  /\ inner_loop(i, 0).kind = "found"
  /\ max_read' = IF pattern_bytes = <<>> THEN max_read
                 ELSE Max(max_read, i + Len(pattern_bytes) - 1)
  /\ fp_result' = Some((module_base + i) % AddrMod)
  /\ pc' = "fp_return"
  /\ UNCHANGED <<env, session, driver, export, ops, caller, fp_module,
                 fp_pattern, module_base, module_size, pattern_bytes, i>>

\* module_data[i + j] with i + j >= module_size reads past the array: the
\* read faults, or yields whatever lies behind the allocation, which then
\* passes the remaining slots or makes one that is no wildcard differ
ScanOutside ==
  /\ pc = "fp_scan"
  /\ loop_condition(i, module_size, Len(fp_pattern))
  /\ LET r == inner_loop(i, 0) IN
       /\ r.kind = "outside"
       /\ \/ /\ pc' = "crashed"
             /\ max_read' = Max(max_read, i + r.j)
             /\ UNCHANGED <<i, fp_result>>
          \/ /\ pc' = "fp_return"
             /\ max_read' = Max(max_read, i + Len(pattern_bytes) - 1)
             /\ fp_result' = Some((module_base + i) % AddrMod)
             /\ UNCHANGED i
          \/ /\ i < module_size + ScanOverrun
             /\ \E j \in r.j .. Len(pattern_bytes) - 1 :
                  /\ pattern_bytes[j + 1] # -1
                  /\ max_read' = Max(max_read, i + j)
             /\ i' = i + 1
             /\ UNCHANGED <<pc, fp_result>>
  /\ UNCHANGED <<env, session, driver, export, ops, caller, fp_module,
                 fp_pattern, module_base, module_size, pattern_bytes>>

\* --------------------------------------------------- the scanner on its own
\* the target: its process id and where its modules are mapped
Target == [pid |-> 4242, exe_base |-> 1024, client_base |-> 4096]

TargetPid == Target.pid

ClientBase == Target.client_base

PatternChars == {"?", " ", "4", "-", "G"}

ImageBytes == {4, 68}

SeqsUpTo(S, n) == UNION {[1..k -> S] : k \in 0..n}

Image(data) ==
  [headers_readable |-> TRUE, image_readable |-> TRUE,
   e_magic |-> IMAGE_DOS_SIGNATURE, Signature |-> IMAGE_NT_SIGNATURE,
   SizeOfImage |-> Len(data), data |-> data,
   VirtualAddress |-> 0, Size |-> 0, export_readable |-> FALSE,
   names |-> <<>>, ordinals |-> <<>>, functions |-> <<>>]

TargetModules(client_name) ==
  <<[szModule |-> "cs2.exe", modBaseAddr |-> Target.exe_base],
    [szModule |-> client_name, modBaseAddr |-> ClientBase]>>

NoOps == [snapshots |-> 0, reads |-> 0, scans |-> 0]

NoGlobals == [g \in {"entity_list", "local_player", "view_matrix"} |-> -1]

IdleDriver ==
  /\ attach_result = "none"
  /\ exit_code = -1
  /\ scopes_left = 0
  /\ client_base = nullopt
  /\ sig_result = [g \in DOMAIN NoGlobals |-> nullopt]
  /\ reported = NoGlobals

IdleExport ==
  /\ ex_args = [module_base |-> 0, function_name |-> ""]
  /\ ex_result = nullopt

IdleScan ==
  /\ caller = "none"
  /\ fp_module = ""
  /\ fp_pattern = <<>>
  /\ module_base = 0
  /\ module_size = 0
  /\ pattern_bytes = <<>>
  /\ i = 0
  /\ fp_result = nullopt
  /\ max_read = -1

ScanInit ==
  /\ proc_snapshot = [valid |-> TRUE, entries |-> <<>>]
  /\ open_ok = TRUE
  /\ \E data \in SeqsUpTo(ImageBytes, MaxImage) \ {<<>>} :
       memory = (ClientBase :> Image(data))
  /\ mod_snapshots =
       (TargetPid :> [valid |-> TRUE, entries |-> TargetModules("client.dll")])
  /\ schema_found = FALSE
  /\ process_id = TargetPid
  /\ process_handle = <<"handle", TargetPid>>
  /\ pc = "find_pattern"
  /\ caller = "harness"
  /\ fp_module = "client.dll"
  /\ fp_pattern \in SeqsUpTo(PatternChars, MaxPatLen)
  /\ module_base = 0
  /\ module_size = 0
  /\ pattern_bytes = <<>>
  /\ i = 0
  /\ fp_result = nullopt
  /\ max_read = -1
  /\ ops = NoOps
  /\ IdleDriver
  /\ IdleExport

ScanReturn ==
  /\ pc = "fp_return"
  /\ caller = "harness"
  /\ pc' = "done"
  /\ UNCHANGED <<env, session, fp, driver, ops, export>>

ScanNext ==
  \/ FindPatternEnter
  \/ ScanLoopExit
  \/ ScanDiffers
  \/ ScanFound
  \/ ScanOutside
  \/ ScanReturn

SpecScan == ScanInit /\ [][ScanNext]_vars

\* ------------------------------------------------- properties of the scanner
image_size == memory[ClientBase].SizeOfImage

compiled == pattern_to_bytes(fp_pattern)

\* slot-wise match of the compiled pattern at offset k of the image
matches_at(k) ==
  \A j \in 1..Len(compiled) :
    compiled[j] = -1 \/ memory[ClientBase].data[k + j] = compiled[j]

eligible_matches == {k \in 0..(image_size - Len(compiled)) : matches_at(k)}

\* C1: for a non-empty compiled pattern P and an image B with |B| >= |P|,
\* find_pattern returns base + i exactly when some offset in 0..|B|-|P|
\* matches slot-wise, and i is the smallest such offset (so matches at
\* offset 0 and at offset |B|-|P| are found).
C1_ScanFindsFirstMatch ==
  (pc = "done" /\ compiled # <<>> /\ image_size >= Len(compiled)) =>
    IF eligible_matches = {}
      THEN fp_result = nullopt
      ELSE fp_result =
             Some(ClientBase + CHOOSE k \in eligible_matches :
                                 \A h \in eligible_matches : k <= h)

\* C5: when the compiled pattern is longer than the image, find_pattern
\* returns nullopt, reads no byte outside the image copy and does not fault.
C5_LongPatternAbsent ==
  Len(compiled) > image_size =>
    /\ max_read < image_size
    /\ pc # "crashed"
    /\ pc = "done" => fp_result = nullopt

\* C6: a pattern string that compiles to zero slots is rejected:
\* find_pattern returns nullopt for it.
C6_EmptyPatternRejected ==
  (pc = "done" /\ compiled = <<>>) => fp_result = nullopt

\* the slots the tokens of a pattern string stand for: a "?" is a token by
\* itself, every other token is a maximal run of characters without " " and
\* "?"; a token of exactly two hex digits stands for its value, any other
\* token for nothing
token_slots(token) ==
  IF Len(token) = 2 /\ token[1] \in HexDigits /\ token[2] \in HexDigits
    THEN <<16 * HexVal(token[1]) + HexVal(token[2])>>
    ELSE <<>>

RECURSIVE tokens_to_slots(_, _, _)
tokens_to_slots(pattern, k, token) ==
  IF k > Len(pattern) THEN token_slots(token)
  ELSE IF pattern[k] = " "
    THEN token_slots(token) \o tokens_to_slots(pattern, k + 1, <<>>)
  ELSE IF pattern[k] = "?"
    THEN token_slots(token) \o <<-1>> \o tokens_to_slots(pattern, k + 1, <<>>)
  ELSE tokens_to_slots(pattern, k + 1, Append(token, pattern[k]))

\* C7: pattern_to_bytes yields, in order, one slot per well-formed token
\* (-1 for "?", the value for two hex digits), nothing for a malformed
\* token, and every slot is -1 or in 0..255.
C7_OneSlotPerWellFormedToken ==
  pc \in {"fp_scan", "fp_return", "done", "crashed"} =>
    /\ pattern_bytes = tokens_to_slots(fp_pattern, 1, <<>>)
    /\ \A j \in 1..Len(pattern_bytes) : pattern_bytes[j] \in -1..255

\* C10: the compiled pattern has at most as many slots as the pattern string
\* has characters, and when SizeOfImage >= the string's length every index
\* the scan reads of the image copy is below SizeOfImage.
C10_ReadsInsideImage ==
  /\ pc \in {"fp_scan", "fp_return", "done", "crashed"} =>
       Len(pattern_bytes) <= Len(fp_pattern)
  /\ image_size >= Len(fp_pattern) =>
       /\ max_read < image_size
       /\ pc # "crashed"

\* a finished scan of an image at least as long as the pattern string that
\* advanced past offset 0 and read several bytes
C10_Witness ==
  /\ pc = "done"
  /\ image_size >= Len(fp_pattern)
  /\ Len(pattern_bytes) >= 2
  /\ i >= 1
  /\ max_read >= 1

\* --------------------------------------------- get_module_export_by_name
\* ReadProcessMemory of the export directory at module_base + VirtualAddress
read_export_directory(base) ==
  /\ process_handle # NullHandle
  /\ memory[base].export_readable

\* the loop over the name slots from slot k (0-based): the first slot whose
\* name equals function_name decides the result
RECURSIVE export_loop(_, _, _)
export_loop(base, function_name, k) ==
  LET image == memory[base] IN
  IF ~(k < Len(image.names)) THEN nullopt
  ELSE IF image.names[k + 1] # function_name
    THEN export_loop(base, function_name, k + 1)
  ELSE
    LET function_ordinal == image.ordinals[k + 1]
        function_address ==
          (base + image.functions[function_ordinal + 1]) % AddrMod
    IN IF /\ function_address >= (base + image.VirtualAddress) % AddrMod
          /\ function_address <=
               (base + image.VirtualAddress + image.Size) % AddrMod
         THEN nullopt
         ELSE Some(function_address)

get_module_export_by_name(base, function_name) ==
  IF ~read_memory(base, FALSE) THEN nullopt
  ELSE IF memory[base].e_magic # IMAGE_DOS_SIGNATURE THEN nullopt
  ELSE IF memory[base].Signature # IMAGE_NT_SIGNATURE THEN nullopt
  ELSE IF memory[base].VirtualAddress = 0 \/ memory[base].Size = 0 THEN nullopt
  ELSE IF ~read_export_directory(base) THEN nullopt
  ELSE export_loop(base, function_name, 0)

GetModuleExportByName ==
  /\ pc = "export"
  /\ ex_result' = get_module_export_by_name(ex_args.module_base,
                                            ex_args.function_name)
  /\ pc' = "export_return"
  /\ ops' = BumpOps(0, 1, 0)
  /\ UNCHANGED <<env, session, fp, driver, ex_args>>

ExportReturn ==
  /\ pc = "export_return"
  /\ pc' = "done"
  /\ UNCHANGED <<env, session, fp, driver, ops, export>>

\* most name slots of an export directory drawn
MaxNames == 2

ExportNames == {"CreateInterface", "FwdSym"}

\* RVAs around an export directory at 16 of size 8: before it, its first
\* byte, inside, one past its last byte, beyond
FunctionRvas == {8, 16, 20, 24, 32}

ExportImages ==
  {[headers_readable |-> flags[1], image_readable |-> TRUE,
    e_magic |-> IF flags[2] THEN IMAGE_DOS_SIGNATURE ELSE 0,
    Signature |-> IF flags[3] THEN IMAGE_NT_SIGNATURE ELSE 0,
    SizeOfImage |-> 0, data |-> <<>>,
    VirtualAddress |-> dir[1], Size |-> dir[2], export_readable |-> flags[4],
    names |-> [k \in 1..n |-> slots[k][1]],
    ordinals |-> [k \in 1..n |-> slots[k][2]],
    functions |-> functions] :
     flags \in {<<TRUE, TRUE, TRUE, TRUE>>, <<FALSE, TRUE, TRUE, TRUE>>,
                <<TRUE, FALSE, TRUE, TRUE>>, <<TRUE, TRUE, FALSE, TRUE>>,
                <<TRUE, TRUE, TRUE, FALSE>>},
     dir \in {<<16, 8>>, <<0, 8>>, <<16, 0>>},
     n \in 0..MaxNames,
     slots \in [1..MaxNames -> ExportNames \X {0, 1}],
     functions \in [1..2 -> FunctionRvas]}

ExportInit ==
  /\ proc_snapshot = [valid |-> TRUE, entries |-> <<>>]
  /\ open_ok = TRUE
  /\ memory \in {(ClientBase :> image) : image \in ExportImages}
  /\ mod_snapshots =
       (TargetPid :> [valid |-> TRUE, entries |-> TargetModules("client.dll")])
  /\ schema_found = FALSE
  /\ process_id = TargetPid
  /\ process_handle = <<"handle", TargetPid>>
  /\ pc = "export"
  /\ ex_args \in [module_base : {ClientBase}, function_name : ExportNames]
  /\ ex_result = nullopt
  /\ ops = NoOps
  /\ IdleScan
  /\ IdleDriver

ExportNext == GetModuleExportByName \/ ExportReturn

SpecExport == ExportInit /\ [][ExportNext]_vars

\* the first name slot equal to the requested symbol, 0 if there is none
first_name_slot ==
  LET names == memory[ex_args.module_base].names
      hits == {k \in 1..Len(names) : names[k] = ex_args.function_name}
  IN IF hits = {} THEN 0 ELSE CHOOSE k \in hits : \A h \in hits : k <= h

export_loop_reached ==
  LET image == memory[ex_args.module_base] IN
    /\ image.headers_readable
    /\ image.e_magic = IMAGE_DOS_SIGNATURE
    /\ image.Signature = IMAGE_NT_SIGNATURE
    /\ image.VirtualAddress # 0
    /\ image.Size # 0
    /\ image.export_readable

\* C4: for the first name slot equal to the requested symbol, with fn_addr =
\* module_base + AddressOfFunctions[ordinal], the result is nullopt if
\* fn_addr is in [module_base+VA, module_base+VA+Size) and fn_addr for every
\* other value, fn_addr = module_base+VA+Size included.
C4_ForwardRangeHalfOpen ==
  (pc = "done" /\ export_loop_reached /\ first_name_slot # 0) =>
    LET image == memory[ex_args.module_base]
        fn_addr == ex_args.module_base
                     + image.functions[image.ordinals[first_name_slot] + 1]
        lo == ex_args.module_base + image.VirtualAddress
    IN ex_result = IF lo <= fn_addr /\ fn_addr < lo + image.Size
                     THEN nullopt ELSE Some(fn_addr)

\* ---------------------------------------------------------------- driver
\* the signatures of main.cpp, character by character
entity_list_signature ==
  <<"4", "8", " ", "8", "B", " ", "0", "D", " ", "?", " ", "?", " ", "?",
    " ", "?", " ", "4", "8", " ", "8", "9", " ", "7", "C", " ", "2", "4",
    " ", "?", " ", "8", "B", " ", "F", "A", " ", "C", "1", " ", "E", "B" >>

local_player_signature ==
  <<"4", "8", " ", "8", "B", " ", "0", "D", " ", "?", " ", "?", " ", "?",
    " ", "?", " ", "F", "2", " ", "0", "F", " ", "1", "1", " ", "4", "4",
    " ", "2", "4", " ", "?", " ", "F", "2", " ", "4", "1", " ", "0", "F",
    " ", "1", "0", " ", "0", "0" >>

view_matrix_signature ==
  <<"4", "8", " ", "8", "D", " ", "0", "D", " ", "?", " ", "?", " ", "?",
    " ", "?", " ", "4", "8", " ", "C", "1", " ", "E", "0", " ", "0", "6" >>

\* instruction bytes in the target that the three signatures match, each a
\* 7-byte RIP-relative instruction whose disp32 is 16, 32 and -8
entity_list_code ==
  <<72, 139, 13, 16, 0, 0, 0, 72, 137, 124, 36, 0, 139, 250, 193, 235 >>

local_player_code ==
  <<72, 139, 13, 32, 0, 0, 0, 242, 15, 17, 68, 36, 0, 242, 65, 15, 16, 0 >>

view_matrix_code ==
  <<72, 141, 13, 248, 255, 255, 255, 72, 193, 224, 6 >>

Zeros(n) == [k \in 1..n |-> 0]

\* bytes [address, address + n) of the target, when the handle is open and
\* they lie in a readable mapped image
target_bytes(address, n) ==
  LET bases == {b \in DOMAIN memory :
                  /\ memory[b].image_readable
                  /\ b <= address
                  /\ address + n <= b + memory[b].SizeOfImage}
  IN IF process_handle = NullHandle \/ bases = {} THEN nullopt
     ELSE LET b == CHOOSE b \in bases : TRUE
          IN Some([k \in 1..n |-> memory[b].data[address - b + k]])

RECURSIVE little_endian(_)
little_endian(bytes) ==
  IF bytes = <<>> THEN 0
  ELSE (bytes[1] + 256 * little_endian(Tail(bytes))) % AddrMod

sign_extend_i32(bytes) ==
  bytes[1] + 256 * bytes[2] + 65536 * bytes[3]
    + 16777216 * (IF bytes[4] >= 128 THEN bytes[4] - 256 ELSE bytes[4])

\* process::resolve_rip_relative_address: address + disp32 at address+3 + 7
resolve_rip_relative_address(address) ==
  LET read == target_bytes(address + 3, 4) IN
  IF ~read.has_value THEN nullopt
  ELSE Some((address + (sign_extend_i32(read.value) % AddrMod) + 7) % AddrMod)

\* process::read_memory<std::uint64_t>: the value read, 0 when the read fails
read_u64(address) ==
  LET read == target_bytes(address, 8) IN
  IF ~read.has_value THEN 0 ELSE little_endian(read.value)

\* attach: what it returns and what it leaves in process_id / process_handle
attach(process_name) ==
  LET id == get_process_id_by_name(process_name) IN
  IF ~id.has_value
    THEN [ret |-> FALSE, process_id |-> process_id,
          process_handle |-> process_handle]
    ELSE [ret |-> OpenProcess(id.value) # NullHandle,
          process_id |-> id.value,
          process_handle |-> OpenProcess(id.value)]

\* main up to its first return, with the `return 1` after a failed attach
\* left out
MainAttachFallThrough ==
  /\ pc = "main"
  /\ LET r == attach("cs2.exe") IN
       /\ process_id' = r.process_id
       /\ process_handle' = r.process_handle
       /\ attach_result' = IF r.ret THEN "true" ELSE "false"
       /\ pc' = "schema_system"
       /\ UNCHANGED exit_code
  /\ UNCHANGED <<env, fp, ops, export, scopes_left, client_base, sig_result,
                 reported>>

\* main line 126: attach, and `return 1` when it fails
MainAttach ==
  /\ pc = "main"
  /\ LET r == attach("cs2.exe") IN
       /\ process_id' = r.process_id
       /\ process_handle' = r.process_handle
       /\ attach_result' = IF r.ret THEN "true" ELSE "false"
       /\ IF r.ret
            THEN pc' = "schema_system" /\ UNCHANGED exit_code
            ELSE pc' = "exited" /\ exit_code' = 1
  /\ UNCHANGED <<env, fp, ops, export, scopes_left, client_base, sig_result,
                 reported>>

\* main line 134: sdk::CSchemaSystem::get() reads the target to locate the
\* schema system and to list its type scopes; nullptr ends main with 1
MainSchemaSystem ==
  /\ pc = "schema_system"
  /\ ops' = BumpOps(1, 1, 1)
  /\ IF schema_found
       THEN /\ scopes_left' \in 0..MaxScopes
            /\ pc' = "type_scopes"
            /\ UNCHANGED exit_code
       ELSE /\ pc' = "exited"
            /\ exit_code' = 1
            /\ UNCHANGED scopes_left
  /\ UNCHANGED <<env, session, fp, export, attach_result, client_base,
                 sig_result, reported>>

\* main lines 144-149: one type scope, its header and its json file
MainGenerateScope ==
  /\ pc = "type_scopes"
  /\ scopes_left > 0
  /\ scopes_left' = scopes_left - 1
  /\ ops' = BumpOps(0, 2, 0)
  /\ UNCHANGED <<env, session, fp, export, pc, attach_result, exit_code,
                 client_base, sig_result, reported>>

\* fetch_offsets lines 109-115
FetchOffsets ==
  /\ pc = "type_scopes"
  /\ scopes_left = 0
  /\ client_base' = get_module_base_by_name("client.dll")
  /\ ops' = BumpOps(1, 0, 0)
  /\ pc' = IF client_base'.has_value THEN "get_entity_list" ELSE "main_return"
  /\ UNCHANGED <<env, session, fp, export, attach_result, exit_code,
                 scopes_left, sig_result, reported>>

\* the call process::find_pattern("client.dll", signature) of a getter
CallFindPattern(at, global, signature) ==
  /\ pc = at
  /\ caller' = global
  /\ fp_module' = "client.dll"
  /\ fp_pattern' = signature
  /\ module_base' = 0
  /\ module_size' = 0
  /\ pattern_bytes' = <<>>
  /\ i' = 0
  /\ fp_result' = nullopt
  /\ max_read' = -1
  /\ pc' = "find_pattern"
  /\ UNCHANGED <<env, session, driver, ops, export>>

\* what fetch_offsets logs for a getter's value
logged_offset(value) == (value - client_base.value) % AddrMod

\* the rest of a getter and the spdlog::info line of fetch_offsets for it
ReturnToFetchOffsets(global, value, reads, next) ==
  /\ pc = "fp_return"
  /\ caller = global
  /\ sig_result' = [sig_result EXCEPT ![global] = fp_result]
  /\ reported' = [reported EXCEPT ![global] = logged_offset(value)]
  /\ ops' = BumpOps(0, reads, 0)
  /\ pc' = next
  /\ UNCHANGED <<env, session, fp, export, attach_result, exit_code,
                 scopes_left, client_base>>

get_entity_list_value ==
  IF ~fp_result.has_value THEN 0
  ELSE LET resolved == resolve_rip_relative_address(fp_result.value)
       IN IF resolved.has_value THEN resolved.value ELSE 0

get_local_player_value ==
  IF ~fp_result.has_value THEN 0
  ELSE LET address == resolve_rip_relative_address(fp_result.value)
       IN IF ~address.has_value THEN 0
          ELSE (read_u64(address.value) + 80) % AddrMod

get_view_matrix_value ==
  IF ~fp_result.has_value THEN 0
  ELSE LET resolved == resolve_rip_relative_address(fp_result.value)
       IN IF resolved.has_value THEN resolved.value ELSE 0

GetEntityListCall ==
  CallFindPattern("get_entity_list", "entity_list", entity_list_signature)

GetEntityListReturn ==
  ReturnToFetchOffsets("entity_list", get_entity_list_value,
                       IF fp_result.has_value THEN 1 ELSE 0,
                       "get_local_player")

GetLocalPlayerCall ==
  CallFindPattern("get_local_player", "local_player", local_player_signature)

GetLocalPlayerReturn ==
  ReturnToFetchOffsets("local_player", get_local_player_value,
                       IF ~fp_result.has_value THEN 0
                       ELSE IF resolve_rip_relative_address(fp_result.value).has_value
                         THEN 2 ELSE 1,
                       "get_view_matrix")

GetViewMatrixCall ==
  CallFindPattern("get_view_matrix", "view_matrix", view_matrix_signature)

GetViewMatrixReturn ==
  ReturnToFetchOffsets("view_matrix", get_view_matrix_value,
                       IF fp_result.has_value THEN 1 ELSE 0,
                       "main_return")

\* main lines 153-155
MainReturn ==
  /\ pc = "main_return"
  /\ exit_code' = 0
  /\ pc' = "exited"
  /\ UNCHANGED <<env, session, fp, export, ops, attach_result, scopes_left,
                 client_base, sig_result, reported>>

\* ------------------------------------------------------ the driver's worlds
ProcessSnapshots ==
  {[valid |-> FALSE, entries |-> <<>>],
   [valid |-> TRUE, entries |->
      <<[szExeFile |-> "[System Process]", th32ProcessID |-> 0],
        [szExeFile |-> "explorer.exe", th32ProcessID |-> 812],
        [szExeFile |-> "cs2.exe", th32ProcessID |-> TargetPid]>>],
   [valid |-> TRUE, entries |->
      <<[szExeFile |-> "[System Process]", th32ProcessID |-> 0],
        [szExeFile |-> "cs2.exe", th32ProcessID |-> TargetPid],
        [szExeFile |-> "explorer.exe", th32ProcessID |-> 812]>>],
   [valid |-> TRUE, entries |->
      <<[szExeFile |-> "[System Process]", th32ProcessID |-> 0],
        [szExeFile |-> "explorer.exe", th32ProcessID |-> 812]>>]}

\* module snapshots of the target; Windows lists the executable first
ModuleSnapshots ==
  {[valid |-> FALSE, entries |-> <<>>],
   [valid |-> TRUE, entries |-> TargetModules("client.dll")],
   [valid |-> TRUE, entries |-> TargetModules("Client.dll")],
   [valid |-> TRUE, entries |->
      <<[szModule |-> "cs2.exe", modBaseAddr |-> Target.exe_base],
        [szModule |-> "ntdll.dll", modBaseAddr |-> 2048]>>],
   [valid |-> TRUE, entries |->
      <<[szModule |-> "cs2.exe", modBaseAddr |-> Target.exe_base],
        [szModule |-> "ntdll.dll", modBaseAddr |-> 2048],
        [szModule |-> "CS2.EXE", modBaseAddr |-> Target.exe_base],
        [szModule |-> "client.dll", modBaseAddr |-> ClientBase]>>]}

\* a client.dll image in which all three signatures occur
client_code ==
  Zeros(2) \o entity_list_code \o Zeros(2) \o local_player_code
    \o Zeros(2) \o view_matrix_code \o Zeros(45)

ClientImages ==
  {Image(client_code), Image(Zeros(64)), Image(Zeros(8)),
   [Image(Zeros(64)) EXCEPT !.headers_readable = FALSE],
   [Image(Zeros(64)) EXCEPT !.e_magic = 0],
   [Image(Zeros(64)) EXCEPT !.Signature = 0],
   [Image(Zeros(64)) EXCEPT !.image_readable = FALSE]}

Init ==
  /\ proc_snapshot \in ProcessSnapshots
  /\ open_ok \in BOOLEAN
  /\ mod_snapshots \in {(TargetPid :> snapshot) : snapshot \in ModuleSnapshots}
  /\ memory \in {(ClientBase :> image) : image \in ClientImages}
  /\ schema_found \in BOOLEAN
  /\ process_id = 0
  /\ process_handle = NullHandle
  /\ pc = "main"
  /\ ops = NoOps
  /\ IdleScan
  /\ IdleDriver
  /\ IdleExport

Next ==
  \/ MainAttach
  \/ MainSchemaSystem
  \/ MainGenerateScope
  \/ FetchOffsets
  \/ GetEntityListCall
  \/ FindPatternEnter
  \/ ScanLoopExit
  \/ ScanDiffers
  \/ ScanFound
  \/ ScanOutside
  \/ GetEntityListReturn
  \/ GetLocalPlayerCall
  \/ GetLocalPlayerReturn
  \/ GetViewMatrixCall
  \/ GetViewMatrixReturn
  \/ MainReturn

Spec == Init /\ [][Next]_vars

\* -------------------------------------------------- properties of the driver
Attached == attach_result = "true" /\ process_handle # NullHandle

\* C2: after attach(name) returned true, for a module snapshot of the target
\* (its executable listed in it, first or not), get_module_base_by_name(name)
\* is present and loaded_modules() contains name, ignoring case.
C2_AttachedExecutableListed ==
  LET snapshot == module_snapshot(process_id) IN
  (/\ attach_result = "true"
   /\ snapshot.valid
   /\ \E k \in 1..Len(snapshot.entries) :
        equals_ignore_case(snapshot.entries[k].szModule, "cs2.exe")) =>
    /\ get_module_base_by_name("cs2.exe").has_value
    /\ loaded_modules.has_value
    /\ \E k \in 1..Len(loaded_modules.value) :
         equals_ignore_case(loaded_modules.value[k], "cs2.exe")

\* C3: when attach returned false, for either reason, the stored process id
\* and the stored handle are what they were before the call.
C3_FailedAttachLeavesSession ==
  attach_result = "false" =>
    /\ process_id = 0
    /\ process_handle = NullHandle

\* C8: when main ran to its end with client.dll present and a global's
\* signature was not found, the offset logged for that global is 0.
C8_MissingSignatureLogsZero ==
  (pc = "exited" /\ exit_code = 0 /\ client_base.has_value) =>
    \A g \in {"entity_list", "view_matrix"} :
      ~sig_result[g].has_value => reported[g] = 0

\* C9: module snapshots, target reads and scans happen only while the
\* session is Attached; a failed attach ends main with exit code 1 and none
\* of them performed; the session never leaves Attached.
C9_TargetUsedOnlyWhileAttached ==
  /\ [][ops' # ops => Attached]_vars
  /\ [][pc = "find_pattern" /\ pc' # pc => Attached]_vars
  /\ [](attach_result = "false" =>
          (pc = "exited" /\ exit_code = 1 /\ ops = NoOps))
  /\ [][Attached => Attached']_vars

\* a complete run: attached, files generated, all three globals scanned for
C9_Witness ==
  /\ pc = "exited"
  /\ exit_code = 0
  /\ Attached
  /\ ops.scans = 4
  /\ ops.snapshots >= 5
  /\ ops.reads >= 8
  /\ \A g \in DOMAIN reported : reported[g] # -1

====
